---------------------------- MODULE Spec2Model ----------------------------
(***************************************************************************)
(* A model of the formula engine of excel-agent (formulaParser):           *)
(* FormulaParser.evaluate = tokenize -> parse -> evaluateNode, run against *)
(* a CellDataProvider.                                                     *)
(*                                                                         *)
(* Representation.                                                         *)
(*   - A JavaScript string is a sequence of one-character strings          *)
(*     ("=1+2" is << "=", "1", "+", "2" >>); positions are 1-based here    *)
(*     and 0-based in the source.  A character outside ASCII is written    *)
(*     as its code point ("U+65E0").                                       *)
(*   - A JavaScript number is an exact rational [n, d] in lowest terms     *)
(*     with d > 0.  IEEE-754 rounding, NaN and the infinities are not      *)
(*     modelled; the inputs are small decimals, for which no claim checked *)
(*     here depends on rounding.                                           *)
(*   - A runtime value is a tagged record (see "Values").                  *)
(*   - A call that can throw returns a record with a "threw" field.        *)
(***************************************************************************)
EXTENDS Integers, Sequences, FiniteSets, TLC

VARIABLES
    tokens,      \* FormulaParser.tokens
    current,     \* FormulaParser.current (0-based index into tokens)
    formula,     \* FormulaParser.formula
    data,        \* SimpleCellDataProvider.data: cell id -> value (partial)
    fault,       \* how the provider's lookups end: "none", "error", "other"
    input,       \* the argument of the evaluate call (last or pending)
    prevInput,   \* the argument of the evaluate call before that one
    ast,         \* the AST the input text was written from (or NoAst)
    ret,         \* what the last evaluate call gave back to its caller
    freshRet,    \* the same call on a newly constructed FormulaParser
    pc           \* "ready": a call on input is pending; "done": the last
                 \* operation was an evaluate call, which returned; "idle":
                 \* no call yet, or the provider was written to since

vars == << tokens, current, formula, data, fault, input, prevInput, ast, ret, freshRet, pc >>

---------------------------------------------------------------------------
(* Characters *)

DigitChars == << "0", "1", "2", "3", "4", "5", "6", "7", "8", "9" >>

UpperChars ==
    << "A", "B", "C", "D", "E", "F", "G", "H", "I", "J", "K", "L", "M",
       "N", "O", "P", "Q", "R", "S", "T", "U", "V", "W", "X", "Y", "Z" >>

LowerChars ==
    << "a", "b", "c", "d", "e", "f", "g", "h", "i", "j", "k", "l", "m",
       "n", "o", "p", "q", "r", "s", "t", "u", "v", "w", "x", "y", "z" >>

Range(s) == { s[i] : i \in DOMAIN s }

DigitSet == Range(DigitChars)

UpperSet == Range(UpperChars)

LowerSet == Range(LowerChars)

\* /\s/ and String.prototype.trim: the white space characters
SpaceSet == { " ", "\t", "\n", "\r" }

IsDigit(c) == c \in DigitSet

IsLetter(c) == c \in UpperSet \/ c \in LowerSet

IsIdentChar(c) == IsLetter(c) \/ IsDigit(c) \/ c = "_"

IsSpace(c) == c \in SpaceSet

IndexIn(seq, c) == CHOOSE i \in DOMAIN seq : seq[i] = c

DigitVal(c) == IndexIn(DigitChars, c) - 1

\* String.prototype.toUpperCase, one character
UpperChar(c) == IF c \in LowerSet THEN UpperChars[IndexIn(LowerChars, c)] ELSE c

\* String.prototype.toUpperCase
\* the text as written, no letter changed
AsWritten(s) == s

ToUpperCase(s) == [ i \in DOMAIN s |-> UpperChar(s[i]) ]

\* String.prototype.charCodeAt, for the characters colToIndex is applied to
\* ("A" is 65 ... "Z" is 90; "0" is 48 ... "9" is 57; "_" is 95)
CharCode(c) ==
    IF c \in UpperSet THEN 64 + IndexIn(UpperChars, c)
    ELSE IF c \in LowerSet THEN 96 + IndexIn(LowerChars, c)
    ELSE IF c \in DigitSet THEN 48 + DigitVal(c)
    ELSE 95

\* String.prototype.startsWith('=')
StartsWithEq(s) == Len(s) >= 1 /\ s[1] = "="

RECURSIVE SkipSpaces(_, _)
\* the first position >= i of s that holds no white space (Len(s)+1 if none)
SkipSpaces(s, i) ==
    IF i <= Len(s) /\ IsSpace(s[i]) THEN SkipSpaces(s, i + 1) ELSE i

RECURSIVE LastNonSpace(_, _)
\* the last position <= i of s that holds no white space (0 if none)
LastNonSpace(s, i) ==
    IF i >= 1 /\ IsSpace(s[i]) THEN LastNonSpace(s, i - 1) ELSE i

\* String.prototype.trim
Trim(s) == SubSeq(s, SkipSpaces(s, 1), LastNonSpace(s, Len(s)))

RECURSIVE DigitsEnd(_, _)
\* the first position >= i of s that holds no digit
DigitsEnd(s, i) ==
    IF i <= Len(s) /\ IsDigit(s[i]) THEN DigitsEnd(s, i + 1) ELSE i

---------------------------------------------------------------------------
(* Numbers: exact rationals *)

Abs(x) == IF x < 0 THEN -x ELSE x

RECURSIVE Gcd(_, _)
Gcd(a, b) == IF b = 0 THEN a ELSE Gcd(b, a % b)

\* the rational n/d (d # 0) in lowest terms with a positive denominator
Rat(n, d) ==
    LET g == Gcd(Abs(n), Abs(d))
        s == IF d < 0 THEN -1 ELSE 1
    IN  [ n |-> (s * n) \div g, d |-> (s * d) \div g ]

Int2Rat(i) == [ n |-> i, d |-> 1 ]

RatAdd(a, b) == Rat(a.n * b.d + b.n * a.d, a.d * b.d)

RatSub(a, b) == Rat(a.n * b.d - b.n * a.d, a.d * b.d)

RatMul(a, b) == Rat(a.n * b.n, a.d * b.d)

\* b # 0
RatDiv(a, b) == Rat(a.n * b.d, a.d * b.n)

RatLess(a, b) == a.n * b.d < b.n * a.d

RatIsZero(a) == a.n = 0

RECURSIVE Pow10(_)
Pow10(k) == IF k = 0 THEN 1 ELSE 10 * Pow10(k - 1)

RECURSIVE DigitsValue(_)
\* the value of a run of decimal digits (0 for the empty run)
DigitsValue(s) ==
    IF Len(s) = 0 THEN 0
    ELSE 10 * DigitsValue(SubSeq(s, 1, Len(s) - 1)) + DigitVal(s[Len(s)])

\* The result of parseFloat / the NaN it gives when no prefix is a number
NaN == [ nan |-> TRUE ]

IsNaN(x) == "nan" \in DOMAIN x

\* parseFloat: leading white space is skipped, then the longest prefix that
\* is a decimal literal (sign, digits, fraction, exponent) is converted and
\* the rest of the string is ignored; NaN if there is no such prefix.
\* ("Infinity" and values beyond the exact range are outside the inputs.)
\* The steps below pass on the positions found so far: i1 is where the
\* digits start, i2 where the integer digits end, i3 where the mantissa ends.

\* the digits of the exponent from position e2 (0 if there are none, and
\* the "e" is then not part of the number)
floatExponentDigits(s, e2) == DigitsValue(SubSeq(s, e2, DigitsEnd(s, e2) - 1))

\* the exponent after the "e" at position e1 - 1
floatExponentSigned(s, e1) ==
    IF e1 <= Len(s) /\ s[e1] = "-" THEN 0 - floatExponentDigits(s, e1 + 1)
    ELSE floatExponentDigits(s, IF e1 <= Len(s) /\ s[e1] = "+" THEN e1 + 1 ELSE e1)

\* the exponent of a mantissa that ends before position m
floatExponent(s, m) ==
    IF m <= Len(s) /\ s[m] \in { "e", "E" } THEN floatExponentSigned(s, m + 1) ELSE 0

floatFractionLen(i2, i3) == IF i3 > i2 THEN i3 - i2 - 1 ELSE 0

floatMantissa(s, i1, i2, i3) ==
    Rat(DigitsValue(SubSeq(s, i1, i2 - 1)) * Pow10(floatFractionLen(i2, i3))
          + DigitsValue(SubSeq(s, i2 + 1, i3 - 1)),
        Pow10(floatFractionLen(i2, i3)))

floatScale(mant, exp) ==
    IF exp >= 0 THEN RatMul(mant, Int2Rat(Pow10(exp)))
    ELSE RatDiv(mant, Int2Rat(Pow10(0 - exp)))

\* "1." is 1 and ".5" is 1/2, but "." is not a number
floatUnsigned(s, i1, i2, i3) ==
    IF i2 = i1 /\ i3 <= i2 + 1 THEN NaN
    ELSE floatScale(floatMantissa(s, i1, i2, i3), floatExponent(s, i3))

floatFraction(s, i1, i2) ==
    floatUnsigned(s, i1, i2,
                  IF i2 <= Len(s) /\ s[i2] = "." THEN DigitsEnd(s, i2 + 1) ELSE i2)

floatDigits(s, i1) == floatFraction(s, i1, DigitsEnd(s, i1))

floatNegate(x) == IF IsNaN(x) THEN x ELSE RatMul(Int2Rat(-1), x)

floatSigned(s, i0) ==
    IF i0 <= Len(s) /\ s[i0] = "-" THEN floatNegate(floatDigits(s, i0 + 1))
    ELSE floatDigits(s, IF i0 <= Len(s) /\ s[i0] = "+" THEN i0 + 1 ELSE i0)

parseFloat(s) == floatSigned(s, SkipSpaces(s, 1))

RECURSIVE NatToString(_)
\* Number.prototype.toString of a non-negative integer (template literal)
NatToString(k) ==
    IF k < 10 THEN << DigitChars[k + 1] >>
    ELSE Append(NatToString(k \div 10), DigitChars[(k % 10) + 1])

\* parseInt of a run of decimal digits
parseInt(s) == DigitsValue(s)

---------------------------------------------------------------------------
(* Values: FormulaValue = number | string | boolean | null, and the 2-D    *)
(* array getCellRange returns                                              *)

Num(q) == [ t |-> "number", n |-> q.n, d |-> q.d ]

NumI(i) == [ t |-> "number", n |-> i, d |-> 1 ]

Str(s) == [ t |-> "string", s |-> s ]

Bool(b) == [ t |-> "boolean", b |-> b ]

Null == [ t |-> "null" ]

Arr(rows) == [ t |-> "array", rows |-> rows ]

NumOf(v) == [ n |-> v.n, d |-> v.d ]

IsScalar(v) == v.t \in { "number", "string", "boolean", "null" }

---------------------------------------------------------------------------
(* Messages and error values *)

MSG_UNCLOSED_STRING ==
    << "U+672A", "U+95ED", "U+5408", "U+7684", "U+5B57", "U+7B26", "U+4E32" >>

MSG_INVALID_IDENT ==
    << "U+65E0", "U+6548", "U+7684", "U+5355", "U+5143", "U+683C", "U+5F15", "U+7528", "U+6216", "U+51FD", "U+6570", "U+540D", ":", " " >>

MSG_UNKNOWN_CHAR ==
    << "U+65E0", "U+6CD5", "U+8BC6", "U+522B", "U+7684", "U+5B57", "U+7B26", ":", " " >>

MSG_EXPECT_LPAREN_PRE ==
    << "U+9884", "U+671F", "U+51FD", "U+6570", " " >>

MSG_EXPECT_LPAREN_POST ==
    << " ", "U+540E", "U+8DDF", "U+968F", "U+7684", "U+662F", " ", "'", "(", "'" >>

MSG_EXPECT_ARGS_END ==
    << "U+9884", "U+671F", "U+51FD", "U+6570", "U+53C2", "U+6570", "U+7ED3", "U+675F", "U+6709", " ", "'", ")", "'" >>

MSG_EXPECT_EXPR_END ==
    << "U+9884", "U+671F", "U+8868", "U+8FBE", "U+5F0F", "U+7ED3", "U+675F", "U+6709", " ", "'", ")", "'" >>

MSG_UNPARSEABLE ==
    << "U+65E0", "U+6CD5", "U+89E3", "U+6790", "U+7684", "U+8868", "U+8FBE", "U+5F0F", ":", " " >>

MSG_INVALID_RANGE ==
    << "U+65E0", "U+6548", "U+7684", "U+5355", "U+5143", "U+683C", "U+8303", "U+56F4" >>

ERR_PREFIX ==
    << "#", "E", "R", "R", "O", "R", ":", " " >>

ERR_BARE ==
    << "#", "E", "R", "R", "O", "R" >>

ERR_NUMERIC ==
    << "#", "E", "R", "R", "O", "R", ":", " ", "U+65E0", "U+6CD5", "U+6267", "U+884C", "U+6570", "U+503C", "U+8FD0", "U+7B97" >>

ERR_DIV0 ==
    << "#", "D", "I", "V", "/", "0", "!" >>

ERR_UNKNOWN_OPERATOR ==
    << "#", "E", "R", "R", "O", "R", ":", " ", "U+672A", "U+77E5", "U+64CD", "U+4F5C", "U+7B26" >>

ERR_UNKNOWN_NODE ==
    << "#", "E", "R", "R", "O", "R", ":", " ", "U+672A", "U+77E5", "U+8282", "U+70B9", "U+7C7B", "U+578B" >>

ERR_IF_ARGS ==
    << "#", "E", "R", "R", "O", "R", ":", " ", "I", "F", " ", "U+51FD", "U+6570", "U+9700", "U+8981", "U+81F3", "U+5C11", " ",
       "2", " ", "U+4E2A", "U+53C2", "U+6570" >>

ERR_UNKNOWN_FUNCTION ==
    << "#", "E", "R", "R", "O", "R", ":", " ", "U+672A", "U+77E5", "U+51FD", "U+6570", " " >>

\* A normal completion, and the two kinds of thrown value: `throw new
\* Error(message)` and a thrown value that is not an Error instance.
NoThrow == [ threw |-> FALSE, isError |-> FALSE, message |-> << >> ]

ThrowError(msg) == [ threw |-> TRUE, isError |-> TRUE, message |-> msg ]

ThrowOther == [ threw |-> TRUE, isError |-> FALSE, message |-> << >> ]

---------------------------------------------------------------------------
(* Tokenizer *)

Token(type, value) == [ type |-> type, value |-> value ]

\* CELL_REGEX = /^[A-Za-z]+[0-9]+$/
RECURSIVE LettersEnd(_, _)
LettersEnd(s, i) ==
    IF i <= Len(s) /\ IsLetter(s[i]) THEN LettersEnd(s, i + 1) ELSE i

CELL_REGEX_test(s) ==
    LET l == LettersEnd(s, 1)
        d == DigitsEnd(s, l)
    IN  l > 1 /\ d > l /\ d = Len(s) + 1

RECURSIVE NumberEnd(_, _, _)
\* the inner while loop of the number branch: digits with at most one "."
NumberEnd(f, pos, hasDot) ==
    IF pos <= Len(f) /\ (IsDigit(f[pos]) \/ (f[pos] = "." /\ ~hasDot))
    THEN NumberEnd(f, pos + 1, hasDot \/ f[pos] = ".")
    ELSE pos

RECURSIVE StringEnd(_, _)
\* the inner while loop of the string branch: up to the next '"'
StringEnd(f, pos) ==
    IF pos <= Len(f) /\ f[pos] # "\"" THEN StringEnd(f, pos + 1) ELSE pos

RECURSIVE IdentEnd(_, _)
\* the inner while loop of the identifier branch
IdentEnd(f, pos) ==
    IF pos <= Len(f) /\ IsIdentChar(f[pos]) THEN IdentEnd(f, pos + 1) ELSE pos

\* the switch with a default case that pushes an EOF token for the
\* character
SymbolTypeOrEof(char) ==
    CASE char = "(" -> "LEFT_PAREN"
      [] char = ")" -> "RIGHT_PAREN"
      [] char = "," -> "COMMA"
      [] char = ":" -> "COLON"
      [] char \in { "+", "-", "*", "/" } -> "OPERATOR"
      [] OTHER -> "EOF"

\* the switch over single-character tokens
SymbolType(char) ==
    CASE char = "(" -> "LEFT_PAREN"
      [] char = ")" -> "RIGHT_PAREN"
      [] char = "," -> "COMMA"
      [] char = ":" -> "COLON"
      [] char \in { "+", "-", "*", "/" } -> "OPERATOR"
      [] OTHER -> "NONE"

RECURSIVE tokenizeLoop(_, _, _)
\* The outer while loop of tokenize from position pos with toks pushed so
\* far.  Gives the completion and this.tokens as the loop leaves it (on a
\* throw: the tokens pushed before the failing character).
tokenizeLoop(f, pos, toks) ==
    IF pos > Len(f)
    THEN [ exc |-> NoThrow, tokens |-> Append(toks, Token("EOF", << >>)) ]
    ELSE
    LET char == f[pos] IN
    IF IsSpace(char) THEN tokenizeLoop(f, pos + 1, toks)
    ELSE IF IsDigit(char) \/ (char = "." /\ pos + 1 <= Len(f) /\ IsDigit(f[pos + 1]))
    THEN LET e == NumberEnd(f, pos, FALSE)
         IN  tokenizeLoop(f, e, Append(toks, Token("NUMBER", SubSeq(f, pos, e - 1))))
    ELSE IF char = "\""
    THEN LET e == StringEnd(f, pos + 1)
         IN  IF e > Len(f)
             THEN [ exc |-> ThrowError(MSG_UNCLOSED_STRING), tokens |-> toks ]
             ELSE tokenizeLoop(f, e + 1,
                               Append(toks, Token("STRING", SubSeq(f, pos + 1, e - 1))))
    ELSE IF IsLetter(char)
    THEN LET e == IdentEnd(f, pos)
             identifier == SubSeq(f, pos, e - 1)
         IN  IF e <= Len(f) /\ f[e] = "("
             THEN tokenizeLoop(f, e, Append(toks, Token("FUNCTION", identifier)))
             ELSE IF CELL_REGEX_test(identifier)
             THEN tokenizeLoop(f, e, Append(toks, Token("CELL_REF", identifier)))
             ELSE [ exc |-> ThrowError(MSG_INVALID_IDENT \o identifier), tokens |-> toks ]
    ELSE IF SymbolType(char) # "NONE"
    THEN tokenizeLoop(f, pos + 1, Append(toks, Token(SymbolType(char), << char >>)))
    ELSE [ exc |-> ThrowError(MSG_UNKNOWN_CHAR \o << char >>), tokens |-> toks ]

\* tokenize() without its first statement: the tokens of the call are
\* appended to the list the previous call left
tokenizeAppending(self) ==
    LET r == tokenizeLoop(self.formula, 1, self.tokens)
    IN  [ exc     |-> r.exc,
          tokens  |-> r.tokens,
          current |-> IF r.exc.threw THEN self.current ELSE 0,
          formula |-> self.formula ]

\* tokenize(): this.tokens = [] first, this.current = 0 last (so a throw
\* leaves this.current as it was).  self is [tokens, current, formula].
tokenize(self) ==
    LET r == tokenizeLoop(self.formula, 1, << >>)
    IN  [ exc     |-> r.exc,
          tokens  |-> r.tokens,
          current |-> IF r.exc.threw THEN self.current ELSE 0,
          formula |-> self.formula ]

---------------------------------------------------------------------------
(* Parser.  The cursor this.current is threaded through as "cur" (0-based, *)
(* so tokens[cur] of the source is tokens[cur + 1] here); every parse      *)
(* function gives [exc, node, current].                                    *)

NumberNode(value) == [ type |-> "number", value |-> value ]

StringNode(value) == [ type |-> "string", value |-> value ]

CellRefNode(cellId) == [ type |-> "cell_ref", cellId |-> cellId ]

RangeRefNode(startCell, endCell) ==
    [ type |-> "range_ref", startCell |-> startCell, endCell |-> endCell ]

BinaryOpNode(operator, left, right) ==
    [ type |-> "binary_op", operator |-> operator, left |-> left, right |-> right ]

FunctionCallNode(name, arguments) ==
    [ type |-> "function_call", name |-> name, arguments |-> arguments ]

NoNode == [ type |-> "none" ]

Parsed(node, cur) == [ exc |-> NoThrow, node |-> node, current |-> cur ]

ParseFailed(msg, cur) == [ exc |-> ThrowError(msg), node |-> NoNode, current |-> cur ]

peek(toks, cur) == toks[cur + 1]

previous(toks, cur) == toks[cur]

isAtEnd(toks, cur) == peek(toks, cur).type = "EOF"

check(toks, cur, type) ==
    IF isAtEnd(toks, cur) THEN FALSE ELSE peek(toks, cur).type = type

\* advance(): the cursor after it
advance(toks, cur) == IF ~isAtEnd(toks, cur) THEN cur + 1 ELSE cur

\* match([type]): whether it matched, and the cursor after it (the token
\* is consumed whenever its type matches)
match(toks, cur, type) ==
    IF check(toks, cur, type)
    THEN [ matched |-> TRUE, current |-> advance(toks, cur) ]
    ELSE [ matched |-> FALSE, current |-> cur ]

\* consume(type, message)
consume(toks, cur, type, message) ==
    IF check(toks, cur, type)
    THEN [ exc |-> NoThrow, current |-> advance(toks, cur) ]
    ELSE [ exc |-> ThrowError(message), current |-> cur ]

\* a failed consume as the result of the parse function it ends
Failed(close) == [ exc |-> close.exc, node |-> NoNode, current |-> close.current ]

RECURSIVE parseAddSubtract(_, _)
RECURSIVE addSubtractLoop(_, _, _)
RECURSIVE parseMultiplyDivide(_, _)
RECURSIVE multiplyDivideLoop(_, _, _)
RECURSIVE parsePrimary(_, _)
RECURSIVE parseArguments(_, _, _)

parseExpression(toks, cur) == parseAddSubtract(toks, cur)

\* parseAddSubtract.  The while condition is
\*   this.match([OPERATOR]) && (previous().value === '+' || ... === '-'):
\* match is evaluated first and advances the cursor over any operator
\* token; the test of its text follows.

\* the loop body, with the right operand parsed
addSubtractBody(toks, left, operator, right) ==
    IF right.exc.threw THEN right
    ELSE addSubtractLoop(toks, BinaryOpNode(operator, left, right.node), right.current)

\* the loop condition after m = match([OPERATOR])
addSubtractTest(toks, left, m) ==
    IF m.matched /\ previous(toks, m.current).value \in { << "+" >>, << "-" >> }
    THEN addSubtractBody(toks, left, previous(toks, m.current).value,
                         parseMultiplyDivide(toks, m.current))
    ELSE Parsed(left, m.current)

addSubtractLoop(toks, left, cur) ==
    addSubtractTest(toks, left, match(toks, cur, "OPERATOR"))

\* after `let left = this.parseMultiplyDivide()`
addSubtractStart(toks, left) ==
    IF left.exc.threw THEN left ELSE addSubtractLoop(toks, left.node, left.current)

parseAddSubtract(toks, cur) == addSubtractStart(toks, parseMultiplyDivide(toks, cur))

\* parseMultiplyDivide, in the same steps
multiplyDivideBody(toks, left, operator, right) ==
    IF right.exc.threw THEN right
    ELSE multiplyDivideLoop(toks, BinaryOpNode(operator, left, right.node), right.current)

multiplyDivideTest(toks, left, m) ==
    IF m.matched /\ previous(toks, m.current).value \in { << "*" >>, << "/" >> }
    THEN multiplyDivideBody(toks, left, previous(toks, m.current).value,
                            parsePrimary(toks, m.current))
    ELSE Parsed(left, m.current)

multiplyDivideLoop(toks, left, cur) ==
    multiplyDivideTest(toks, left, match(toks, cur, "OPERATOR"))

multiplyDivideStart(toks, left) ==
    IF left.exc.threw THEN left ELSE multiplyDivideLoop(toks, left.node, left.current)

parseMultiplyDivide(toks, cur) == multiplyDivideStart(toks, parsePrimary(toks, cur))

\* The do-while loop over the arguments of a function call; gives
\* [exc, arguments, current].  argumentsNext: after m = match([COMMA]).
argumentsNext(toks, args, m) ==
    IF m.matched THEN parseArguments(toks, m.current, args)
    ELSE [ exc |-> NoThrow, arguments |-> args, current |-> m.current ]

\* after arg = parseExpression()
argumentsPush(toks, args, arg) ==
    IF arg.exc.threw
    THEN [ exc |-> arg.exc, arguments |-> args, current |-> arg.current ]
    ELSE argumentsNext(toks, Append(args, arg.node), match(toks, arg.current, "COMMA"))

parseArguments(toks, cur, args) == argumentsPush(toks, args, parseExpression(toks, cur))

\* The cell / range branch of parsePrimary, after match([CELL_REF]) left the
\* cursor at cur: match([COLON]) && match([CELL_REF]).
\* rangeSecond: after colon = match([COLON]); the second match is made only
\* if the first matched.
rangeSecond(toks, colon) ==
    IF colon.matched THEN match(toks, colon.current, "CELL_REF")
    ELSE [ matched |-> FALSE, current |-> colon.current ]

cellOrRange(toks, cellId, second) ==
    IF second.matched
    THEN Parsed(RangeRefNode(cellId, previous(toks, second.current).value), second.current)
    ELSE Parsed(CellRefNode(cellId), second.current)

parseCellOrRange(toks, cur) ==
    cellOrRange(toks, previous(toks, cur).value,
                rangeSecond(toks, match(toks, cur, "COLON")))

\* The function call branch of parsePrimary, after match([FUNCTION]) left
\* the cursor at cur
functionCallClose(name, args, close) ==
    IF close.exc.threw THEN Failed(close)
    ELSE Parsed(FunctionCallNode(name, args.arguments), close.current)

functionCallEnd(toks, name, args) ==
    IF args.exc.threw THEN Failed(args)
    ELSE functionCallClose(name, args,
                           consume(toks, args.current, "RIGHT_PAREN", MSG_EXPECT_ARGS_END))

functionCallArguments(toks, name, open) ==
    IF open.exc.threw THEN Failed(open)
    ELSE functionCallEnd(toks, name,
            IF ~check(toks, open.current, "RIGHT_PAREN")
            THEN parseArguments(toks, open.current, << >>)
            ELSE [ exc |-> NoThrow, arguments |-> << >>, current |-> open.current ])

functionCallNamed(toks, cur, name) ==
    functionCallArguments(toks, name,
        consume(toks, cur, "LEFT_PAREN",
                MSG_EXPECT_LPAREN_PRE \o name \o MSG_EXPECT_LPAREN_POST))

parseFunctionCall(toks, cur) == functionCallNamed(toks, cur, previous(toks, cur).value)

\* The parenthesized branch of parsePrimary, after match([LEFT_PAREN])
groupClose(expr, close) ==
    IF close.exc.threw THEN Failed(close) ELSE Parsed(expr.node, close.current)

groupEnd(toks, expr) ==
    IF expr.exc.threw THEN expr
    ELSE groupClose(expr, consume(toks, expr.current, "RIGHT_PAREN", MSG_EXPECT_EXPR_END))

parseGroup(toks, cur) == groupEnd(toks, parseExpression(toks, cur))

\* the number and string branches, after the match left the cursor at c
numberLiteral(toks, c) == Parsed(NumberNode(parseFloat(previous(toks, c).value)), c)

stringLiteral(toks, c) == Parsed(StringNode(previous(toks, c).value), c)

parsePrimary(toks, cur) ==
    IF match(toks, cur, "NUMBER").matched
    THEN numberLiteral(toks, match(toks, cur, "NUMBER").current)
    ELSE IF match(toks, cur, "STRING").matched
    THEN stringLiteral(toks, match(toks, cur, "STRING").current)
    ELSE IF match(toks, cur, "CELL_REF").matched
    THEN parseCellOrRange(toks, match(toks, cur, "CELL_REF").current)
    ELSE IF match(toks, cur, "FUNCTION").matched
    THEN parseFunctionCall(toks, match(toks, cur, "FUNCTION").current)
    ELSE IF match(toks, cur, "LEFT_PAREN").matched
    THEN parseGroup(toks, match(toks, cur, "LEFT_PAREN").current)
    ELSE ParseFailed(MSG_UNPARSEABLE \o peek(toks, cur).value, cur)

\* parse(): from this.current, over this.tokens
parse(self) == parseExpression(self.tokens, self.current)

---------------------------------------------------------------------------
(* CellDataProvider.  A provider is [data, fault]: data is the record of   *)
(* SimpleCellDataProvider (a function from cell id strings to values, an   *)
(* absent key being a cell never set); fault says how a lookup ends.       *)

\* SimpleCellDataProvider.getCellValue: this.data[cellId] ?? null
getCellValue(d, cellId) == IF cellId \in DOMAIN d THEN d[cellId] ELSE Null

\* SimpleCellDataProvider.setCellValue: this.data[cellId] = value
setCellValue(d, cellId, value) ==
    [ k \in DOMAIN d \cup { cellId } |-> IF k = cellId THEN value ELSE d[k] ]

RECURSIVE cellMatchFrom(_, _)
\* String.prototype.match(/([A-Za-z]+)([0-9]+)/) searching from position i:
\* the leftmost run of letters that a digit follows, and the digits after
\* it; the regular expression is not anchored
cellMatchFrom(s, i) ==
    IF i > Len(s) THEN [ found |-> FALSE, col |-> << >>, row |-> << >> ]
    ELSE IF IsLetter(s[i])
    THEN LET l == LettersEnd(s, i)
             e == DigitsEnd(s, l)
         IN  IF e > l
             THEN [ found |-> TRUE, col |-> SubSeq(s, i, l - 1), row |-> SubSeq(s, l, e - 1) ]
             ELSE cellMatchFrom(s, l)
    ELSE cellMatchFrom(s, i + 1)

cellMatch(s) == cellMatchFrom(s, 1)

RECURSIVE colToIndex(_)
\* index = index * 26 + (col.charCodeAt(i) - 64), left to right
colToIndex(col) ==
    IF Len(col) = 0 THEN 0
    ELSE colToIndex(SubSeq(col, 1, Len(col) - 1)) * 26 + (CharCode(col[Len(col)]) - 64)

RECURSIVE indexToCol(_)
\* while (index > 0) { col = letter((index - 1) % 26) + col; index = floor((index - 1) / 26) }
indexToCol(index) ==
    IF index > 0
    THEN Append(indexToCol((index - 1) \div 26), UpperChars[((index - 1) % 26) + 1])
    ELSE << >>

\* the first of the two, whichever is smaller
FirstOf(a, b) == a

Min2(a, b) == IF a <= b THEN a ELSE b

Max2(a, b) == IF a >= b THEN a ELSE b

\* SimpleCellDataProvider.getCellRange; gives [exc, value]
getCellRange(d, startCell, endCell) ==
    LET startMatch == cellMatch(startCell)
        endMatch   == cellMatch(endCell)
    IN  IF ~startMatch.found \/ ~endMatch.found
        THEN [ exc |-> ThrowError(MSG_INVALID_RANGE), value |-> Null ]
        ELSE
        LET startRow == parseInt(startMatch.row)
            endRow   == parseInt(endMatch.row)
            startColIndex == colToIndex(ToUpperCase(startMatch.col))
            endColIndex   == colToIndex(ToUpperCase(endMatch.col))
            minRow == Min2(startRow, endRow)
            maxRow == Max2(startRow, endRow)
            minCol == Min2(startColIndex, endColIndex)
            maxCol == Max2(startColIndex, endColIndex)
            result == [ r \in 1 .. (maxRow - minRow + 1) |->
                        [ c \in 1 .. (maxCol - minCol + 1) |->
                            getCellValue(d, indexToCol(minCol + c - 1)
                                            \o NatToString(minRow + r - 1)) ] ]
        IN  [ exc |-> NoThrow, value |-> Arr(result) ]

\* The message of the Error a failing host provider throws
MSG_PROVIDER == << "p", "r", "o", "v", "i", "d", "e", "r" >>

\* CellDataProvider.getCellValue as the evaluator calls it: the simple
\* provider's lookup, or the failure of a host provider whose lookups throw
providerGetCellValue(provider, cellId) ==
    CASE provider.fault = "none"  ->
            [ exc |-> NoThrow, value |-> getCellValue(provider.data, cellId) ]
      [] provider.fault = "error" -> [ exc |-> ThrowError(MSG_PROVIDER), value |-> Null ]
      [] OTHER                    -> [ exc |-> ThrowOther, value |-> Null ]

\* CellDataProvider.getCellRange as the evaluator calls it
providerGetCellRange(provider, startCell, endCell) ==
    CASE provider.fault = "none"  -> getCellRange(provider.data, startCell, endCell)
      [] provider.fault = "error" -> [ exc |-> ThrowError(MSG_PROVIDER), value |-> Null ]
      [] OTHER                    -> [ exc |-> ThrowOther, value |-> Null ]

---------------------------------------------------------------------------
(* Evaluator.  evaluateNode gives [exc, value, calls]: calls counts the    *)
(* lookups made on the provider.                                           *)

\* toNumber's `null` result
NotNumber == [ isNull |-> TRUE ]

IsNumber(x) == "n" \in DOMAIN x

\* toNumber with text that parseFloat rejects read as 0
toNumberOrZero(value) ==
    IF value.t = "null" \/ (value.t = "string" /\ value.s = << >>) THEN Int2Rat(0)
    ELSE IF value.t = "number" THEN NumOf(value)
    ELSE IF value.t = "boolean" THEN (IF value.b THEN Int2Rat(1) ELSE Int2Rat(0))
    ELSE IF value.t = "string"
    THEN LET num == parseFloat(value.s) IN IF IsNaN(num) THEN Int2Rat(0) ELSE num
    ELSE NotNumber

toNumber(value) ==
    IF value.t = "null" \/ (value.t = "string" /\ value.s = << >>) THEN Int2Rat(0)
    ELSE IF value.t = "number" THEN NumOf(value)
    ELSE IF value.t = "boolean" THEN (IF value.b THEN Int2Rat(1) ELSE Int2Rat(0))
    ELSE IF value.t = "string"
    THEN LET num == parseFloat(value.s) IN IF IsNaN(num) THEN NotNumber ELSE num
    ELSE NotNumber

\* a truth test that takes every string, the empty one too, as true
TruthyText(value) ==
    CASE value.t = "null"    -> FALSE
      [] value.t = "number"  -> value.n # 0
      [] value.t = "boolean" -> value.b
      [] OTHER               -> TRUE

\* !!value
Truthy(value) ==
    CASE value.t = "null"    -> FALSE
      [] value.t = "number"  -> value.n # 0
      [] value.t = "string"  -> value.s # << >>
      [] value.t = "boolean" -> value.b
      [] OTHER               -> TRUE

\* The elements an aggregate's nested loops visit, in order: each cell of
\* each row of an array argument, a scalar argument itself
RECURSIVE flattenRows(_)
flattenRows(rows) ==
    IF Len(rows) = 0 THEN << >> ELSE rows[1] \o flattenRows(Tail(rows))

RECURSIVE visited(_)
visited(args) ==
    IF Len(args) = 0 THEN << >>
    ELSE (IF args[1].t = "array" THEN flattenRows(args[1].rows) ELSE << args[1] >>)
         \o visited(Tail(args))

RECURSIVE sumLoop(_, _)
\* sum after the elements es, starting from sum
sumLoop(es, sum) ==
    IF Len(es) = 0 THEN sum
    ELSE LET num == toNumber(es[1])
         IN  sumLoop(Tail(es), IF IsNumber(num) THEN RatAdd(sum, num) ELSE sum)

\* calculateSum without the Array.isArray branch
calculateSumOfScalars(args) == sumLoop(args, Int2Rat(0))

calculateSum(args) == sumLoop(visited(args), Int2Rat(0))

RECURSIVE countLoop(_, _)
countLoop(es, count) ==
    IF Len(es) = 0 THEN count
    ELSE countLoop(Tail(es), IF IsNumber(toNumber(es[1])) THEN count + 1 ELSE count)

\* a count of the elements that are numbers already
countNumbers(args) ==
    Cardinality({ i \in DOMAIN visited(args) : visited(args)[i].t = "number" })

countNumericValues(args) == countLoop(visited(args), 0)

RECURSIVE maxLoop(_, _)
\* max is NotNumber for the source's null
maxLoop(es, max) ==
    IF Len(es) = 0 THEN max
    ELSE LET num == toNumber(es[1])
         IN  maxLoop(Tail(es),
                     IF ~IsNumber(num) THEN max
                     ELSE IF ~IsNumber(max) THEN num
                     ELSE IF RatLess(max, num) THEN num ELSE max)

\* calculateMax with the running maximum starting at 0
calculateMaxFromZero(args) == Num(maxLoop(visited(args), Int2Rat(0)))

calculateMax(args) ==
    LET max == maxLoop(visited(args), NotNumber)
    IN  IF IsNumber(max) THEN Num(max) ELSE Str(ERR_BARE)

RECURSIVE minLoop(_, _)
minLoop(es, min) ==
    IF Len(es) = 0 THEN min
    ELSE LET num == toNumber(es[1])
         IN  minLoop(Tail(es),
                     IF ~IsNumber(num) THEN min
                     ELSE IF ~IsNumber(min) THEN num
                     ELSE IF RatLess(num, min) THEN num ELSE min)

calculateMin(args) ==
    LET min == minLoop(visited(args), NotNumber)
    IN  IF IsNumber(min) THEN Num(min) ELSE Str(ERR_BARE)

NAME_SUM == << "S", "U", "M" >>

NAME_AVERAGE == << "A", "V", "E", "R", "A", "G", "E" >>

NAME_COUNT == << "C", "O", "U", "N", "T" >>

NAME_MAX == << "M", "A", "X" >>

NAME_MIN == << "M", "I", "N" >>

NAME_IF == << "I", "F" >>

\* the switch of evaluateFunction over the evaluated arguments
applyFunction(name, evaluatedArgs) ==
    LET upper == ToUpperCase(name) IN
    CASE upper = NAME_SUM -> Num(calculateSum(evaluatedArgs))
      [] upper = NAME_AVERAGE ->
            LET sum   == calculateSum(evaluatedArgs)
                count == countNumericValues(evaluatedArgs)
            IN  IF count = 0 THEN NumI(0) ELSE Num(RatDiv(sum, Int2Rat(count)))
      [] upper = NAME_COUNT -> NumI(countNumericValues(evaluatedArgs))
      [] upper = NAME_MAX -> calculateMax(evaluatedArgs)
      [] upper = NAME_MIN -> calculateMin(evaluatedArgs)
      [] upper = NAME_IF ->
            IF Len(evaluatedArgs) < 2 THEN Str(ERR_IF_ARGS)
            ELSE IF Truthy(evaluatedArgs[1]) THEN evaluatedArgs[2]
            ELSE IF Len(evaluatedArgs) > 2 THEN evaluatedArgs[3] ELSE Null
      [] OTHER -> Str(ERR_UNKNOWN_FUNCTION \o name)

\* the switch with the test of the divisor made only for a dividend other
\* than 0
applyOperatorZeroDividend(operator, left, right) ==
    IF ~IsNumber(left) \/ ~IsNumber(right) THEN Str(ERR_NUMERIC)
    ELSE CASE operator = << "+" >> -> Num(RatAdd(left, right))
           [] operator = << "-" >> -> Num(RatSub(left, right))
           [] operator = << "*" >> -> Num(RatMul(left, right))
           [] operator = << "/" >> ->
                 IF RatIsZero(left) THEN NumI(0)
                 ELSE IF RatIsZero(right) THEN Str(ERR_DIV0) ELSE Num(RatDiv(left, right))
           [] OTHER -> Str(ERR_UNKNOWN_OPERATOR)

\* the arithmetic of a binary_op node on the two coerced operands
applyOperator(operator, left, right) ==
    IF ~IsNumber(left) \/ ~IsNumber(right) THEN Str(ERR_NUMERIC)
    ELSE CASE operator = << "+" >> -> Num(RatAdd(left, right))
           [] operator = << "-" >> -> Num(RatSub(left, right))
           [] operator = << "*" >> -> Num(RatMul(left, right))
           [] operator = << "/" >> ->
                 IF RatIsZero(right) THEN Str(ERR_DIV0) ELSE Num(RatDiv(left, right))
           [] OTHER -> Str(ERR_UNKNOWN_OPERATOR)

RECURSIVE evaluateNode(_, _)
RECURSIVE evaluateArguments(_, _)

\* args.map(arg => this.evaluateNode(arg)): left to right, the first throw
\* ends it; gives [exc, values, calls]
evaluateArguments(args, provider) ==
    IF Len(args) = 0 THEN [ exc |-> NoThrow, values |-> << >>, calls |-> 0 ]
    ELSE LET first == evaluateNode(args[1], provider)
         IN  IF first.exc.threw
             THEN [ exc |-> first.exc, values |-> << >>, calls |-> first.calls ]
             ELSE LET rest == evaluateArguments(Tail(args), provider)
                  IN  [ exc    |-> rest.exc,
                        values |-> << first.value >> \o rest.values,
                        calls  |-> first.calls + rest.calls ]

evaluateFunction(name, args, provider) ==
    LET evaluated == evaluateArguments(args, provider)
    IN  IF evaluated.exc.threw
        THEN [ exc |-> evaluated.exc, value |-> Null, calls |-> evaluated.calls ]
        ELSE [ exc |-> NoThrow, value |-> applyFunction(name, evaluated.values),
               calls |-> evaluated.calls ]

evaluateNode(node, provider) ==
    CASE node.type = "number" ->
            [ exc |-> NoThrow, value |-> Num(node.value), calls |-> 0 ]
      [] node.type = "string" ->
            [ exc |-> NoThrow, value |-> Str(node.value), calls |-> 0 ]
      [] node.type = "cell_ref" ->
            LET r == providerGetCellValue(provider, node.cellId)
            IN  [ exc |-> r.exc, value |-> r.value, calls |-> 1 ]
      [] node.type = "range_ref" ->
            LET r == providerGetCellRange(provider, node.startCell, node.endCell)
            IN  [ exc |-> r.exc, value |-> r.value, calls |-> 1 ]
      [] node.type = "binary_op" ->
            LET l == evaluateNode(node.left, provider)
            IN  IF l.exc.threw THEN l
                ELSE LET r == evaluateNode(node.right, provider)
                     IN  IF r.exc.threw
                         THEN [ exc |-> r.exc, value |-> Null, calls |-> l.calls + r.calls ]
                         ELSE [ exc   |-> NoThrow,
                                value |-> applyOperator(node.operator,
                                                        toNumber(l.value), toNumber(r.value)),
                                calls |-> l.calls + r.calls ]
      [] node.type = "function_call" ->
            evaluateFunction(node.name, node.arguments, provider)
      [] OTHER ->
            [ exc |-> NoThrow, value |-> Str(ERR_UNKNOWN_NODE), calls |-> 0 ]

---------------------------------------------------------------------------
(* evaluate.  self is the FormulaParser's fields [tokens, current,         *)
(* formula]; the result is the fields after the call, the completion       *)
(* (exc), the value returned and the number of provider lookups.           *)

\* The body of the try block: this.tokenize(); const ast = this.parse();
\* return this.evaluateNode(ast).  t is the parser after tokenize, p the
\* result of parse, e the result of evaluateNode.
tryReturn(t, p, e) ==
    [ tokens |-> t.tokens, current |-> p.current, formula |-> t.formula,
      exc |-> e.exc, value |-> e.value, calls |-> e.calls ]

tryEvaluate(t, p, provider) ==
    IF p.exc.threw
    THEN [ tokens |-> t.tokens, current |-> p.current, formula |-> t.formula,
           exc |-> p.exc, value |-> Null, calls |-> 0 ]
    ELSE tryReturn(t, p, evaluateNode(p.node, provider))

tryParse(t, provider) ==
    IF t.exc.threw
    THEN [ tokens |-> t.tokens, current |-> t.current, formula |-> t.formula,
           exc |-> t.exc, value |-> Null, calls |-> 0 ]
    ELSE tryEvaluate(t, parse(t), provider)

tryBody(self, provider) == tryParse(tokenize(self), provider)

\* a catch block that throws again what it caught
rethrow(r) == r

\* the catch block: an Error becomes "#ERROR: <message>", anything else
\* that was thrown becomes "#ERROR"
catch(r) ==
    IF ~r.exc.threw THEN r
    ELSE [ r EXCEPT !.exc = NoThrow,
                    !.value = IF r.exc.isError THEN Str(ERR_PREFIX \o r.exc.message)
                              ELSE Str(ERR_BARE) ]

\* evaluate without the test of the first character
evaluateAnyText(self, provider, f) ==
    catch(tryBody([ self EXCEPT !.formula = Trim(SubSeq(f, 2, Len(f))) ], provider))

evaluate(self, provider, f) ==
    IF ~StartsWithEq(f)
    THEN [ tokens |-> self.tokens, current |-> self.current, formula |-> self.formula,
           exc |-> NoThrow, value |-> Str(f), calls |-> 0 ]
    ELSE catch(tryBody([ self EXCEPT !.formula = Trim(SubSeq(f, 2, Len(f))) ], provider))

\* a FormulaParser as its constructor leaves it
NewParser == [ tokens |-> << >>, current |-> 0, formula |-> << >> ]

---------------------------------------------------------------------------
(* Formula text written from an AST *)

Precedence(node) ==
    IF node.type # "binary_op" THEN 3
    ELSE IF node.operator \in { << "*" >>, << "/" >> } THEN 2 ELSE 1

Parenthesized(text) == << "(" >> \o text \o << ")" >>

RECURSIVE Unparse(_, _)
RECURSIVE UnparseArguments(_, _)

UnparseArguments(args, full) ==
    IF Len(args) = 0 THEN << >>
    ELSE IF Len(args) = 1 THEN Unparse(args[1], full)
    ELSE Unparse(args[1], full) \o << "," >> \o UnparseArguments(Tail(args), full)

\* The text of node.  An operand of a binary operator is parenthesized when
\* the standard reading needs it (a left operand of lower precedence, a
\* right operand of lower or equal precedence) and, if full, whenever it is
\* itself a binary operation.  Number literals are natural numbers.
Unparse(node, full) ==
    CASE node.type = "number" -> NatToString(node.value.n)
      [] node.type = "string" -> << "\"" >> \o node.value \o << "\"" >>
      [] node.type = "cell_ref" -> node.cellId
      [] node.type = "range_ref" -> node.startCell \o << ":" >> \o node.endCell
      [] node.type = "binary_op" ->
            LET p == Precedence(node)
                l == Unparse(node.left, full)
                r == Unparse(node.right, full)
                wrapL == Precedence(node.left) < p \/ (full /\ Precedence(node.left) < 3)
                wrapR == Precedence(node.right) <= p \/ (full /\ Precedence(node.right) < 3)
            IN  (IF wrapL THEN Parenthesized(l) ELSE l) \o node.operator
                \o (IF wrapR THEN Parenthesized(r) ELSE r)
      [] OTHER ->
            node.name \o Parenthesized(UnparseArguments(node.arguments, full))

FormulaOf(node, full) == << "=" >> \o Unparse(node, full)

---------------------------------------------------------------------------
(* Bounds and input sets *)

\* the longest formula body enumerated character by character
MaxLexLen == 3

\* the longest text without a leading "=" enumerated
MaxPlainLen == 2

\* number literals of generated formulas are 0 .. MaxLit
MaxLit == 4

\* the most binary operators in a generated arithmetic expression
MaxOps == 2

Faults == { "none", "error", "other" }

LexAlphabet == { "0", "1", "A", "(", ")", ",", ":", "/", "*", "+", "\"", " ", ".", "?" }

Strings(alphabet, maxLen) == UNION { [ 1 .. n -> alphabet ] : n \in 0 .. maxLen }

\* formulas and texts the specification names
F_SUM_UNCLOSED == << "=", "S", "U", "M", "(", "1", ",", "2" >>

F_RANGE_ROOT == << "=", "A", "1", ":", "B", "2" >>

F_IF_RANGE == << "=", "I", "F", "(", "1", ",", "A", "1", ":", "B", "2", ")" >>

F_CELLS_APART == << "=", "A", "1", " ", "B", "2" >>

F_PRODUCT_THEN_NUMBER == << "=", "2", "*", "3", " ", "4" >>

F_HELLO == << "h", "e", "l", "l", "o" >>

SampleInputs ==
    { F_SUM_UNCLOSED,
      F_RANGE_ROOT,
      F_IF_RANGE,
      F_CELLS_APART,
      F_PRODUCT_THEN_NUMBER,
      F_HELLO }

\* the formulas with a body of up to n characters, the texts of up to m
\* characters, and the samples
LexInputs(n, m) ==
    { << "=" >> \o s : s \in Strings(LexAlphabet, n) }
    \cup Strings(LexAlphabet \cup { "=" }, m)
    \cup SampleInputs

\* A lookup can fail only if one is made, and none is made for a text
\* without a letter: the failing providers are paired with the others
FaultsFor(text) ==
    IF \E i \in DOMAIN text : IsLetter(text[i]) THEN Faults ELSE { "none" }

Operators == { << "+" >>, << "-" >>, << "*" >>, << "/" >> }

Literals(max) == { NumberNode(Int2Rat(k)) : k \in 0 .. max }

RECURSIVE ArithWithOps(_)
\* the arithmetic expressions with exactly n binary operators
ArithWithOps(n) ==
    IF n = 0 THEN Literals(MaxLit)
    ELSE UNION { { BinaryOpNode(op, l, r) :
                     op \in Operators, l \in ArithWithOps(i), r \in ArithWithOps(n - 1 - i) }
                 : i \in 0 .. (n - 1) }

ArithAsts(max) == UNION { ArithWithOps(n) : n \in 0 .. max }

CellA1 == << "A", "1" >>

CellA2 == << "A", "2" >>

CellB1 == << "B", "1" >>

CellB2 == << "B", "2" >>

\* the provider of the usage example: A1 = 10, A2 = 20, B1 = 30, B2 = 40
SampleData ==
    [ k \in { CellA1, CellA2, CellB1, CellB2 } |->
        CASE k = CellA1 -> NumI(10)
          [] k = CellA2 -> NumI(20)
          [] k = CellB1 -> NumI(30)
          [] OTHER      -> NumI(40) ]

---------------------------------------------------------------------------
(* State machine *)

Self == [ tokens |-> tokens, current |-> current, formula |-> formula ]

Provider == [ data |-> data, fault |-> fault ]

NoRet == [ exc |-> NoThrow, value |-> Null, calls |-> 0 ]

Returned(r) == [ exc |-> r.exc, value |-> r.value, calls |-> r.calls ]

\* parser.evaluate(f) on the FormulaParser of the state, r being what it
\* gives; freshRet records what a newly constructed FormulaParser over the
\* same provider returns (fresh)
CallReturns(f, r, fresh) ==
    /\ tokens' = r.tokens
    /\ current' = r.current
    /\ formula' = r.formula
    /\ input' = f
    /\ prevInput' = input
    /\ ret' = Returned(r)
    /\ freshRet' = Returned(fresh)
    /\ pc' = "done"
    /\ UNCHANGED << data, fault, ast >>

Call(f) == CallReturns(f, evaluate(Self, Provider, f), evaluate(NewParser, Provider, f))

\* the pending call of a specification whose Init draws the input
EvaluateInput ==
    /\ pc = "ready"
    /\ Call(input)

InitParser ==
    /\ tokens = NewParser.tokens
    /\ current = NewParser.current
    /\ formula = NewParser.formula
    /\ ret = NoRet
    /\ freshRet = NoRet
    /\ prevInput = << >>

\* Formula text character by character: one evaluate call on a new
\* FormulaParser, for every short text over LexAlphabet and every provider
\* behaviour
InitLex ==
    /\ InitParser
    /\ input \in LexInputs(MaxLexLen, MaxPlainLen)
    /\ ast = NoNode
    /\ data = SampleData
    /\ fault \in FaultsFor(input)
    /\ pc = "ready"

NextLex == EvaluateInput

SpecLex == InitLex /\ [][NextLex]_vars

\* Arithmetic: one evaluate call for the text of every arithmetic
\* expression of up to MaxOps operators, minimally and fully parenthesized
InitArith ==
    /\ InitParser
    /\ ast \in ArithAsts(MaxOps)
    /\ \E full \in BOOLEAN : input = FormulaOf(ast, full)
    /\ data = SampleData
    /\ fault = "none"
    /\ pc = "ready"

NextArith == EvaluateInput

SpecArith == InitArith /\ [][NextArith]_vars

---------------------------------------------------------------------------
(* A session: evaluate calls, one after the other, on one FormulaParser,   *)
(* and writes to the provider between them                                 *)

S_EMPTY == << >>

S_SPACE_EQ == << " ", "=", "1" >>

S_ONE == << "=", "1" >>

S_PADDED == << "=", " ", "2", " " >>

S_CELL_TWICE == << "=", "A", "1", "*", "2" >>

S_DIV_CELL == << "=", "6", "/", "A", "1" >>

S_SUM_RANGE == << "=", "S", "U", "M", "(", "A", "1", ":", "B", "2", ")" >>

S_OPEN_STRING == << "=", "\"", "a" >>

S_STRING_AFTER_TOKENS == << "=", "1", "*", "(", "2", " ", "\"" >>

S_BAD_CHAR_LATE == << "=", "A", "1", "*", "2", "*", "3", " ", "?" >>
S_OPEN_GROUP == << "=", "(", "(", "1" >>
S_NO_PRIMARY == << "=", "1", "*", "2", "*" >>

S_TRAILING == << "=", "1", " ", "2", " ", "3" >>

SessionInputs ==
    { S_EMPTY,
      F_HELLO,
      S_SPACE_EQ,
      S_ONE,
      S_PADDED,
      S_CELL_TWICE,
      S_DIV_CELL,
      S_SUM_RANGE,
      S_OPEN_STRING,
      S_STRING_AFTER_TOKENS,
      S_BAD_CHAR_LATE,
      S_OPEN_GROUP,
      S_NO_PRIMARY,
      S_TRAILING }

SessionCells == { CellA1 }

SessionValues == { Null, NumI(3), Str(<< "x" >>) }

Evaluate(f) ==
    /\ pc \in { "idle", "done" }
    /\ Call(f)

SetCellValue(cellId, value) ==
    /\ pc \in { "idle", "done" }
    /\ data' = setCellValue(data, cellId, value)
    /\ pc' = "idle"
    /\ UNCHANGED << tokens, current, formula, fault, input, prevInput, ast, ret, freshRet >>

Init ==
    /\ InitParser
    /\ input = << >>
    /\ ast = NoNode
    /\ data = SampleData
    /\ fault \in Faults
    /\ pc = "idle"

Next ==
    \/ \E f \in SessionInputs : Evaluate(f)
    \/ \E c \in SessionCells, v \in SessionValues : SetCellValue(c, v)

Spec == Init /\ [][Next]_vars

---------------------------------------------------------------------------
(* Evaluation of one operator or one function call over literals, cells    *)
(* and ranges, for every content of the cells                              *)

\* the most arguments of a generated function call
MaxArgs == 2

DivByZeroNode == BinaryOpNode(<< "/" >>, NumberNode(Int2Rat(1)), NumberNode(Int2Rat(0)))

RangeA1A2 == RangeRefNode(CellA1, CellA2)

RangeA1B2 == RangeRefNode(CellA1, CellB2)

Operands ==
    { NumberNode(Int2Rat(k)) : k \in 0 .. 2 }
    \cup { StringNode(<< >>), StringNode(<< "x" >>), StringNode(<< "7" >>) }
    \cup { CellRefNode(CellA1), CellRefNode(CellA2) }
    \cup { RangeA1A2, RangeA1B2 }
    \cup { DivByZeroNode }

FunctionNames == { NAME_SUM, NAME_COUNT, NAME_AVERAGE }

\* one operator over two operands, or one function over up to max operands
AstNodes(max) ==
    { BinaryOpNode(op, l, r) : op \in Operators, l \in Operands, r \in Operands }
    \cup { FunctionCallNode(name, args) :
             name \in FunctionNames,
             args \in UNION { [ 1 .. n -> Operands ] : n \in 0 .. max } }

Absent == [ t |-> "absent" ]

\* what A1 may hold
A1Values ==
    { Absent, Null, NumI(10), Str(<< >>), Str(<< "x" >>), Str(<< "7" >>),
      Bool(TRUE), Bool(FALSE) }

\* what A2 may hold
A2Values == { Absent, NumI(20), Str(<< "x" >>) }

SheetWith(a1, a2) ==
    [ k \in (IF a1 = Absent THEN { } ELSE { CellA1 })
            \cup (IF a2 = Absent THEN { } ELSE { CellA2 }) |->
        IF k = CellA1 THEN a1 ELSE a2 ]

Sheets == { SheetWith(a1, a2) : a1 \in A1Values, a2 \in A2Values } \cup { SampleData }

IsReference(node) == node.type \in { "cell_ref", "range_ref" }

\* the node reads the provider
HasReference(node) ==
    CASE node.type = "binary_op" -> IsReference(node.left) \/ IsReference(node.right)
      [] node.type = "function_call" ->
            \E i \in DOMAIN node.arguments : IsReference(node.arguments[i])
      [] OTHER -> IsReference(node)

\* the content of the cells matters only to a node that reads them
SheetsFor(node) == IF HasReference(node) THEN Sheets ELSE { SampleData }

\* this.evaluateNode(ast), called directly
EvaluateNode ==
    /\ pc = "ready"
    /\ ret' = evaluateNode(ast, Provider)
    /\ pc' = "node"
    /\ UNCHANGED << tokens, current, formula, data, fault, input, prevInput, ast, freshRet >>

InitAst ==
    /\ InitParser
    /\ ast \in AstNodes(MaxArgs)
    /\ input = FormulaOf(ast, FALSE)
    /\ data \in SheetsFor(ast)
    /\ fault = "none"
    /\ pc = "ready"

NextAst ==
    \/ EvaluateInput
    \/ EvaluateNode

SpecAst == InitAst /\ [][NextAst]_vars

---------------------------------------------------------------------------
(* MAX, MIN and IF over literals, cells and ranges                         *)

\* the most arguments of a generated IF call
MaxIfArgs == 3

FnOperands ==
    { NumberNode(Int2Rat(0)), NumberNode(Int2Rat(2)),
      StringNode(<< >>), StringNode(<< "x" >>),
      CellRefNode(CellA1), RangeA1A2, DivByZeroNode }

ArgLists(max) == UNION { [ 1 .. n -> FnOperands ] : n \in 0 .. max }

\* MAX and MIN over up to max operands, IF over up to maxIf, and SUM()
FnNodes(max, maxIf) ==
    { FunctionCallNode(name, args) : name \in { NAME_MAX, NAME_MIN }, args \in ArgLists(max) }
    \cup { FunctionCallNode(NAME_IF, args) : args \in ArgLists(maxIf) }
    \cup { FunctionCallNode(NAME_SUM, << >>) }

FnSheets ==
    { SheetWith(a1, a2) : a1 \in A1Values \cup { NumI(-5) }, a2 \in { Absent, NumI(20) } }
    \cup { SampleData }

InitFn ==
    /\ InitParser
    /\ ast \in FnNodes(MaxArgs, MaxIfArgs)
    /\ input = FormulaOf(ast, FALSE)
    /\ data \in (IF HasReference(ast) THEN FnSheets ELSE { SampleData })
    /\ fault = "none"
    /\ pc = "ready"

NextFn ==
    \/ EvaluateInput
    \/ EvaluateNode

SpecFn == InitFn /\ [][NextFn]_vars

---------------------------------------------------------------------------
(* Function names: every letter-casing of the six names, and other names   *)

KnownNames == { NAME_SUM, NAME_AVERAGE, NAME_COUNT, NAME_MAX, NAME_MIN, NAME_IF }

RECURSIVE Casings(_)
\* the ways of writing an upper-case text, each letter in either case
Casings(name) ==
    IF Len(name) = 0 THEN { << >> }
    ELSE { << c >> \o rest :
             c \in (IF name[1] \in UpperSet
                    THEN { name[1], LowerChars[IndexIn(UpperChars, name[1])] }
                    ELSE { name[1] }),
             rest \in Casings(Tail(name)) }

OtherNames ==
    { << "f", "o", "o" >>, << "F", "o", "o" >>, << "S", "U", "M", "S" >>,
      << "s", "u" >>, << "A", "1" >>, << "x", "_", "1" >> }

NameOperands == { NumberNode(Int2Rat(1)), NumberNode(Int2Rat(2)), CellRefNode(CellA1), RangeA1A2 }

NamedCalls(max) ==
    { FunctionCallNode(name, args) :
        name \in UNION { Casings(k) : k \in KnownNames } \cup OtherNames,
        args \in UNION { [ 1 .. n -> NameOperands ] : n \in 0 .. max } }

NameSheets == { SampleData, SheetWith(Absent, NumI(20)), SheetWith(Str(<< "x" >>), Absent) }

InitName ==
    /\ InitParser
    /\ ast \in NamedCalls(MaxArgs)
    /\ input = FormulaOf(ast, FALSE)
    /\ data \in (IF HasReference(ast) THEN NameSheets ELSE { SampleData })
    /\ fault = "none"
    /\ pc = "ready"

NextName ==
    \/ EvaluateInput
    \/ EvaluateNode

SpecName == InitName /\ [][NextName]_vars

---------------------------------------------------------------------------
(* SimpleCellDataProvider.getCellRange called with two endpoint strings    *)

\* Cell ids as written, each with the column index and row number it names
Corner(colText, rowText, col, row) ==
    [ colText |-> colText, rowText |-> rowText, col |-> col, row |-> row ]

Corners ==
    { Corner(<< "A" >>, << "1" >>, 1, 1),
      Corner(<< "a" >>, << "2" >>, 1, 2),
      Corner(<< "B" >>, << "1" >>, 2, 1),
      Corner(<< "b" >>, << "0", "2" >>, 2, 2),
      Corner(<< "B" >>, << "3" >>, 2, 3),
      Corner(<< "Z" >>, << "1" >>, 26, 1),
      Corner(<< "A", "A" >>, << "2" >>, 27, 2),
      Corner(<< "a", "B" >>, << "1", "0" >>, 28, 10) }

IdOf(c) == c.colText \o c.rowText

\* strings that are not a cell id from their first to their last character
NotCellIds ==
    { << "1", "A", "1" >>, << "A", "1", "B", "2" >>, << "!", "A", "1" >>,
      << "A" >>, << >> }

Endpoints == { IdOf(c) : c \in Corners } \cup NotCellIds

CellZ1 == << "Z", "1" >>

CellAA2 == << "A", "A", "2" >>

CellAB10 == << "A", "B", "1", "0" >>

\* a sheet with cells in the far columns and one under a lower-case key
WideData ==
    [ k \in { CellA2, CellB2, CellZ1, CellAA2, CellAB10, << "a", "1" >> } |->
        CASE k = CellA2   -> Str(<< "x" >>)
          [] k = CellB2   -> Null
          [] k = CellZ1   -> Bool(TRUE)
          [] k = CellAA2  -> NumI(5)
          [] k = CellAB10 -> NumI(9)
          [] OTHER        -> NumI(7) ]

\* provider.getCellRange(ast.startCell, ast.endCell)
GetCellRange ==
    /\ pc = "ready"
    /\ ret' = [ exc   |-> getCellRange(data, ast.startCell, ast.endCell).exc,
                value |-> getCellRange(data, ast.startCell, ast.endCell).value,
                calls |-> 1 ]
    /\ pc' = "range"
    /\ UNCHANGED << tokens, current, formula, data, fault, input, prevInput, ast, freshRet >>

InitRange ==
    /\ InitParser
    /\ \E s \in Endpoints, e \in Endpoints : ast = RangeRefNode(s, e)
    /\ input = << >>
    /\ data \in { SampleData, WideData }
    /\ fault = "none"
    /\ pc = "ready"

NextRange == GetCellRange

SpecRange == InitRange /\ [][NextRange]_vars

---------------------------------------------------------------------------
(* Cell references written in either case                                  *)

UpperCellIds == { CellA1, CellA2, CellB1, CellB2 }

\* A1, a1, A2, a2, ...
SpelledCellIds == UNION { Casings(id) : id \in UpperCellIds }

\* a reference to one cell, and SUM over a range
CaseNodes ==
    { CellRefNode(c) : c \in SpelledCellIds }
    \cup { FunctionCallNode(NAME_SUM, << RangeRefNode(s, e) >>) :
             s \in SpelledCellIds, e \in SpelledCellIds }

InitCase ==
    /\ InitParser
    /\ ast \in CaseNodes
    /\ input = FormulaOf(ast, FALSE)
    /\ data \in { SampleData, WideData }
    /\ fault = "none"
    /\ pc = "ready"

NextCase ==
    \/ EvaluateInput
    \/ EvaluateNode

SpecCase == InitCase /\ [][NextCase]_vars

---------------------------------------------------------------------------
(* Arithmetic, in the standard reading *)

\* The value of an arithmetic expression read as written: an operator
\* applies to the values of its two operands.  [defined, value]; a
\* division by zero makes the expression undefined.
RECURSIVE ArithValue(_)
ArithBinary(operator, l, r) ==
    IF ~l.defined \/ ~r.defined THEN [ defined |-> FALSE, value |-> Int2Rat(0) ]
    ELSE CASE operator = << "+" >> -> [ defined |-> TRUE, value |-> RatAdd(l.value, r.value) ]
           [] operator = << "-" >> -> [ defined |-> TRUE, value |-> RatSub(l.value, r.value) ]
           [] operator = << "*" >> -> [ defined |-> TRUE, value |-> RatMul(l.value, r.value) ]
           [] OTHER ->
                IF RatIsZero(r.value) THEN [ defined |-> FALSE, value |-> Int2Rat(0) ]
                ELSE [ defined |-> TRUE, value |-> RatDiv(l.value, r.value) ]

ArithValue(node) ==
    IF node.type = "number" THEN [ defined |-> TRUE, value |-> node.value ]
    ELSE ArithBinary(node.operator, ArithValue(node.left), ArithValue(node.right))

\* C1: for every arithmetic expression e over number literals, + - * / and
\* parentheses, without division by zero, evaluate("=" + e) returns the
\* value of e in the standard reading (* and / before + and -, left to
\* right within a tier, a parenthesized group as a unit).
C1_StandardArithmetic ==
    (pc = "done" /\ ArithValue(ast).defined)
        => (~ret.exc.threw /\ ret.value = Num(ArithValue(ast).value))

---------------------------------------------------------------------------
(* The evaluate boundary *)

\* the parser as evaluate leaves it before the try block
Prepared(self, f) == [ self EXCEPT !.formula = Trim(SubSeq(f, 2, Len(f))) ]

IsErrorValue(v) ==
    /\ v.t = "string"
    /\ Len(v.s) >= Len(ERR_BARE)
    /\ SubSeq(v.s, 1, Len(ERR_BARE)) = ERR_BARE

\* what the try block of the call just made did, re-run on a new parser
TryOfInput == tryBody(Prepared(NewParser, input), Provider)

\* C2: evaluate never lets a failure reach its caller; a failure raised
\* while tokenizing, parsing or evaluating becomes the returned string
\* "#ERROR: <message>" if it is an Error and "#ERROR" otherwise, and
\* evaluate("=SUM(1,2") is such an error value.
C2_EvaluateTotal ==
    pc = "done" =>
        /\ ~ret.exc.threw
        /\ (StartsWithEq(input) /\ TryOfInput.exc.threw) =>
              /\ IsErrorValue(ret.value)
              /\ TryOfInput.exc.isError =>
                    ret.value = Str(ERR_PREFIX \o TryOfInput.exc.message)
              /\ ~TryOfInput.exc.isError => ret.value = Str(ERR_BARE)
        /\ input = F_SUM_UNCLOSED => ret.value = Str(ERR_PREFIX \o MSG_EXPECT_ARGS_END)

\* the call of "=SUM(1,2" has returned the message of the missing ")"
C2_Witness ==
    /\ pc = "done"
    /\ input = F_SUM_UNCLOSED
    /\ TryOfInput.exc.threw
    /\ ret.value = Str(ERR_PREFIX \o MSG_EXPECT_ARGS_END)

\* the token list of the call just made is complete (it ends in EOF)
Tokenized ==
    /\ StartsWithEq(input)
    /\ Len(tokens) > 0
    /\ tokens[Len(tokens)].type = "EOF"

\* tokens are left after the root expression
TokensRemain == Tokenized /\ tokens[current + 1].type # "EOF"

\* a ":" after a cell reference is not followed by a cell reference
DanglingColon ==
    /\ Tokenized
    /\ \E i \in 1 .. (Len(tokens) - 2) :
          /\ tokens[i].type = "CELL_REF"
          /\ tokens[i + 1].type = "COLON"
          /\ tokens[i + 2].type # "CELL_REF"

\* C3: when tokens remain unconsumed after the root expression has been
\* parsed, or a ":" following a cell reference is not followed by a second
\* cell reference, evaluate returns an error value beginning with "#ERROR".
C3_WholeInputParsed ==
    (pc = "done" /\ (TokensRemain \/ DanglingColon)) => IsErrorValue(ret.value)

\* C4: the value evaluate returns is a number, a string, a boolean or null,
\* never the 2-D structure of a range.
C4_ScalarResult == pc = "done" => IsScalar(ret.value)

\* C5: a call of evaluate with a text that does not start with "=" returns
\* the text itself, leaves the token list, the cursor and the stored formula
\* as they were, and makes no call of the CellDataProvider.
C5_PlainTextUnchanged ==
    [][ (pc' = "done" /\ ~StartsWithEq(input')) =>
            /\ ~ret'.exc.threw
            /\ ret'.value = Str(input')
            /\ ret'.calls = 0
            /\ tokens' = tokens
            /\ current' = current
            /\ formula' = formula ]_vars

\* evaluate("hello") has returned "hello" on a parser holding the tokens
\* of an earlier formula
C5_Witness ==
    /\ pc = "done"
    /\ input = F_HELLO
    /\ ret.value = Str(F_HELLO)
    /\ Len(tokens) > 0
    /\ StartsWithEq(prevInput)

\* C6: the result of evaluate(f) after any sequence of earlier calls on the
\* same FormulaParser equals the result of evaluate(f) on a new
\* FormulaParser over the same provider.
C6_NoStateBetweenCalls == pc = "done" => ret = freshRet

\* "=A1*2" has been evaluated right after a call that failed in the
\* tokenizer with tokens already in the list
C6_Witness ==
    /\ pc = "done"
    /\ prevInput = S_STRING_AFTER_TOKENS
    /\ input = S_CELL_TWICE
    /\ fault = "none"
    /\ getCellValue(data, CellA1) = NumI(3)
    /\ ret.value = NumI(6)
    /\ ret = freshRet

---------------------------------------------------------------------------
(* Operators and functions, from the content of the cells *)

\* the value of an operand, read from the cells
ValueOf(node) ==
    CASE node.type = "number" -> Num(node.value)
      [] node.type = "string" -> Str(node.value)
      [] node.type = "cell_ref" ->
            IF node.cellId \in DOMAIN data THEN data[node.cellId] ELSE Null
      [] node.type = "range_ref" -> [ t |-> "array" ]
      [] OTHER -> Str(ERR_DIV0)

\* Numeric coercion: null and the empty string are 0, a boolean is 1 or 0,
\* a number is itself, the text "7" is 7; the other texts of the operands
\* and cells ("x", "#DIV/0!") and a range are not numbers
Coercible(v) ==
    \/ v.t \in { "null", "boolean", "number" }
    \/ v.t = "string" /\ v.s \in { << >>, << "7" >> }

Coerced(v) ==
    CASE v.t = "number" -> NumOf(v)
      [] v.t = "boolean" -> IF v.b THEN Int2Rat(1) ELSE Int2Rat(0)
      [] v.t = "string" /\ v.s = << "7" >> -> Int2Rat(7)
      [] OTHER -> Int2Rat(0)

\* the cells of a range, row by row
CellsOf(node) ==
    IF node = RangeA1A2 THEN << CellA1, CellA2 >>
    ELSE << CellA1, CellB1, CellA2, CellB2 >>

CellValueOf(cellId) == IF cellId \in DOMAIN data THEN data[cellId] ELSE Null

\* the flattening of one argument
ElementsOf(node) ==
    IF node.type = "range_ref"
    THEN [ i \in DOMAIN CellsOf(node) |-> CellValueOf(CellsOf(node)[i]) ]
    ELSE << ValueOf(node) >>

RECURSIVE Flattening(_)
Flattening(args) ==
    IF Len(args) = 0 THEN << >> ELSE ElementsOf(args[1]) \o Flattening(Tail(args))

RECURSIVE Total(_)
\* the total of the coerced values of the coercible elements
Total(es) ==
    IF Len(es) = 0 THEN Int2Rat(0)
    ELSE IF Coercible(es[1]) THEN RatAdd(Coerced(es[1]), Total(Tail(es)))
    ELSE Total(Tail(es))

HowMany(es) == Cardinality({ i \in DOMAIN es : Coercible(es[i]) })

\* a value has been returned for the node ast, by evaluate on its text or
\* by evaluateNode
Evaluated == pc \in { "done", "node" }

F_ONE_BY_ZERO == << "=", "1", "/", "0" >>

F_ONE_BY_TWO == << "=", "1", "/", "2" >>

F_SUM_EMPTY == << "=", "S", "U", "M", "(", ")" >>

F_AVERAGE_COLUMN ==
    << "=", "A", "V", "E", "R", "A", "G", "E", "(", "A", "1", ":", "A", "2", ")" >>

\* C7: a division whose operands both coerce to numbers gives "#DIV/0!"
\* when the coerced right operand is 0, whatever the left operand, and the
\* quotient otherwise; "=1/0" gives "#DIV/0!" and "=1/2" gives 0.5.
C7_Division ==
    /\ (Evaluated /\ ast.type = "binary_op" /\ ast.operator = << "/" >>
          /\ Coercible(ValueOf(ast.left)) /\ Coercible(ValueOf(ast.right)))
        => /\ ~ret.exc.threw
           /\ ret.value =
                IF RatIsZero(Coerced(ValueOf(ast.right))) THEN Str(ERR_DIV0)
                ELSE Num(RatDiv(Coerced(ValueOf(ast.left)), Coerced(ValueOf(ast.right))))
    /\ (pc = "done" /\ input = F_ONE_BY_ZERO) => ret.value = Str(ERR_DIV0)
    /\ (pc = "done" /\ input = F_ONE_BY_TWO) => ret.value = Num(Rat(1, 2))

\* 0 divided by a cell that is absent has given "#DIV/0!"
C7_Witness ==
    /\ pc = "done"
    /\ ast = BinaryOpNode(<< "/" >>, NumberNode(Int2Rat(0)), CellRefNode(CellA1))
    /\ CellA1 \notin DOMAIN data
    /\ ret.value = Str(ERR_DIV0)

\* C8: a binary operation, for each of + - * /, with an operand that is
\* not numerically coercible gives the value "#ERROR: <numeric operation
\* impossible>" and raises nothing; null, the empty string and booleans
\* are coercible and do not give it.
C8_NonNumericOperand ==
    (ast.type = "binary_op"
        /\ (pc = "node" \/ (pc = "done" /\ ast.operator \in { << "*" >>, << "/" >> })))
    => /\ ~ret.exc.threw
       /\ (~Coercible(ValueOf(ast.left)) \/ ~Coercible(ValueOf(ast.right)))
            => ret.value = Str(ERR_NUMERIC)
       /\ (Coercible(ValueOf(ast.left)) /\ Coercible(ValueOf(ast.right)))
            => ret.value # Str(ERR_NUMERIC)

\* the sum of "#DIV/0!", the value of 1/0, and 1 has given the error value
C8_Witness ==
    /\ pc = "node"
    /\ ast = BinaryOpNode(<< "+" >>, DivByZeroNode, NumberNode(Int2Rat(1)))
    /\ ~ret.exc.threw
    /\ ret.value = Str(ERR_NUMERIC)

\* C9: SUM gives the total of the coerced values of the coercible elements
\* of the flattening of its arguments, skipping the others, and 0 when
\* there is none; "=SUM()" gives 0 and "=SUM(A1:B2)" gives 100 over
\* A1 = 10, A2 = 20, B1 = 30, B2 = 40.
C9_Sum ==
    /\ (Evaluated /\ ast.type = "function_call" /\ ast.name = NAME_SUM)
        => (~ret.exc.threw /\ ret.value = Num(Total(Flattening(ast.arguments))))
    /\ (pc = "done" /\ input = F_SUM_EMPTY) => ret.value = NumI(0)
    /\ (pc = "done" /\ input = S_SUM_RANGE /\ data = SampleData) => ret.value = NumI(100)

\* SUM(A1:A2, "x") over A1 = true and A2 = "x" has given 1
C9_Witness ==
    /\ pc = "done"
    /\ ast = FunctionCallNode(NAME_SUM, << RangeA1A2, StringNode(<< "x" >>) >>)
    /\ data = SheetWith(Bool(TRUE), Str(<< "x" >>))
    /\ ret.value = NumI(1)

\* C10: COUNT gives the number of coercible elements of the flattening of
\* its arguments, AVERAGE gives SUM divided by that number, or 0 when the
\* number is 0; "=AVERAGE(A1:A2)" gives 15 over A1 = 10, A2 = 20.
C10_CountAverage ==
    /\ (Evaluated /\ ast.type = "function_call" /\ ast.name = NAME_COUNT)
        => (~ret.exc.threw /\ ret.value = NumI(HowMany(Flattening(ast.arguments))))
    /\ (Evaluated /\ ast.type = "function_call" /\ ast.name = NAME_AVERAGE)
        => /\ ~ret.exc.threw
           /\ ret.value =
                IF HowMany(Flattening(ast.arguments)) = 0 THEN NumI(0)
                ELSE Num(RatDiv(Total(Flattening(ast.arguments)),
                                Int2Rat(HowMany(Flattening(ast.arguments)))))
    /\ (pc = "done" /\ input = F_AVERAGE_COLUMN /\ data = SampleData)
        => ret.value = NumI(15)

\* AVERAGE(A1:A2) over a null A1 and A2 = 20 has given 10: the null cell is
\* counted
C10_Witness ==
    /\ pc = "done"
    /\ ast = FunctionCallNode(NAME_AVERAGE, << RangeA1A2 >>)
    /\ data = SheetWith(Null, NumI(20))
    /\ ret.value = NumI(10)

---------------------------------------------------------------------------
(* MAX and MIN *)

\* the coercible elements
CoercibleIn(es) == { i \in DOMAIN es : Coercible(es[i]) }

\* the largest coerced value among the coercible elements (there is one)
Largest(es) ==
    Coerced(es[CHOOSE i \in CoercibleIn(es) :
                  \A j \in CoercibleIn(es) : ~RatLess(Coerced(es[i]), Coerced(es[j]))])

\* the smallest
Smallest(es) ==
    Coerced(es[CHOOSE i \in CoercibleIn(es) :
                  \A j \in CoercibleIn(es) : ~RatLess(Coerced(es[j]), Coerced(es[i]))])

F_MAX_EMPTY == << "=", "M", "A", "X", "(", ")" >>

\* C11: MAX (MIN) gives the largest (smallest) coerced value among the
\* coercible elements of the flattening of its arguments, and the string
\* "#ERROR" exactly when no element is coercible; "=MAX()" gives "#ERROR"
\* while "=SUM()" gives 0.
C11_MaxMin ==
    /\ (Evaluated /\ ast.type = "function_call" /\ ast.name = NAME_MAX)
        => /\ ~ret.exc.threw
           /\ ret.value =
                IF CoercibleIn(Flattening(ast.arguments)) = { } THEN Str(ERR_BARE)
                ELSE Num(Largest(Flattening(ast.arguments)))
    /\ (Evaluated /\ ast.type = "function_call" /\ ast.name = NAME_MIN)
        => /\ ~ret.exc.threw
           /\ ret.value =
                IF CoercibleIn(Flattening(ast.arguments)) = { } THEN Str(ERR_BARE)
                ELSE Num(Smallest(Flattening(ast.arguments)))
    /\ (pc = "done" /\ input = F_MAX_EMPTY) => ret.value = Str(ERR_BARE)
    /\ (pc = "done" /\ input = F_SUM_EMPTY) => ret.value = NumI(0)

\* MAX("x", A1:A2) over A1 = -5 and an absent A2 has given 0, the value of
\* the absent cell
C11_Witness ==
    /\ pc = "done"
    /\ ast = FunctionCallNode(NAME_MAX, << StringNode(<< "x" >>), RangeA1A2 >>)
    /\ data = SheetWith(NumI(-5), Absent)
    /\ ret.value = NumI(0)

---------------------------------------------------------------------------
(* IF *)

\* the cells of a range as rows
RowsOf(node) ==
    IF node = RangeA1A2 THEN << << CellA1 >>, << CellA2 >> >>
    ELSE << << CellA1, CellB1 >>, << CellA2, CellB2 >> >>

\* the evaluated argument: the value of an operand, the 2-D structure of a
\* range
ArgumentOf(node) ==
    IF node.type = "range_ref"
    THEN Arr([ i \in DOMAIN RowsOf(node) |->
                 [ j \in DOMAIN RowsOf(node)[i] |-> CellValueOf(RowsOf(node)[i][j]) ] ])
    ELSE ValueOf(node)

\* anything other than 0, null, the empty string and false
IsTruthy(v) == v \notin { NumI(0), Null, Str(<< >>), Bool(FALSE) }

\* the arguments that read the provider
Lookups(args) == Cardinality({ i \in DOMAIN args : IsReference(args[i]) })

\* C12: IF with fewer than 2 arguments gives "#ERROR: <IF needs at least 2
\* arguments>"; with 2 or more, every argument is evaluated, and the result
\* is the evaluated second argument when the evaluated condition is truthy,
\* otherwise the evaluated third argument if there is one, otherwise null.
C12_If ==
    (Evaluated /\ ast.type = "function_call" /\ ast.name = NAME_IF)
    => /\ ~ret.exc.threw
       /\ ret.calls = Lookups(ast.arguments)
       /\ ret.value =
            IF Len(ast.arguments) < 2 THEN Str(ERR_IF_ARGS)
            ELSE IF IsTruthy(ArgumentOf(ast.arguments[1])) THEN ArgumentOf(ast.arguments[2])
            ELSE IF Len(ast.arguments) > 2 THEN ArgumentOf(ast.arguments[3])
            ELSE Null

\* IF("", 2, A1) over A1 = "x" has given "x", the third argument
C12_Witness ==
    /\ pc = "done"
    /\ ast = FunctionCallNode(NAME_IF,
                << StringNode(<< >>), NumberNode(Int2Rat(2)), CellRefNode(CellA1) >>)
    /\ CellValueOf(CellA1) = Str(<< "x" >>)
    /\ ret.calls = 1
    /\ ret.value = Str(<< "x" >>)

---------------------------------------------------------------------------
(* Function names *)

\* a and b are the same text up to the case of the letters
SameLetters(a, b) ==
    /\ Len(a) = Len(b)
    /\ \A i \in DOMAIN a :
          \/ a[i] = b[i]
          \/ \E k \in DOMAIN UpperChars :
                { a[i], b[i] } = { UpperChars[k], LowerChars[k] }

\* what the same operation gives for the call of ast under the name k
ResultNamed(k) ==
    IF pc = "node"
    THEN evaluateNode(FunctionCallNode(k, ast.arguments), Provider)
    ELSE Returned(evaluate(NewParser, Provider,
                           FormulaOf(FunctionCallNode(k, ast.arguments), FALSE)))

F_SUM_LOWER == << "=", "s", "u", "m", "(", "1", ",", "2", ")" >>

\* C13: a call whose name is, up to the case of its letters, one of SUM,
\* AVERAGE, COUNT, MAX, MIN, IF gives what the call under the upper-case
\* name gives ("=sum(1,2)" as "=SUM(1,2)"); a call under any other name
\* gives the value "#ERROR: <unknown function> <name>", with the name as
\* written, after its arguments have been evaluated.
C13_FunctionNames ==
    (Evaluated /\ ast.type = "function_call")
    => /\ \A k \in KnownNames : SameLetters(ast.name, k) => ret = ResultNamed(k)
       /\ (\A k \in KnownNames : ~SameLetters(ast.name, k))
            => /\ ~ret.exc.threw
               /\ ret.value = Str(ERR_UNKNOWN_FUNCTION \o ast.name)
               /\ ret.calls = Lookups(ast.arguments)
       /\ (pc = "done" /\ input = F_SUM_LOWER) => ret.value = NumI(3)

\* "=sum(1,2)" has given 3
C13_Witness ==
    /\ pc = "done"
    /\ input = F_SUM_LOWER
    /\ ast.name = << "s", "u", "m" >>
    /\ ret.value = NumI(3)

---------------------------------------------------------------------------
(* Ranges *)

IsCorner(id) == \E c \in Corners : IdOf(c) = id

CornerOf(id) == CHOOSE c \in Corners : IdOf(c) = id

\* the upper-case label of a column: A .. Z, AA, AB
ColumnLabel(col) ==
    IF col <= 26 THEN << UpperChars[col] >> ELSE << "A", UpperChars[col - 26] >>

RowLabel(row) == IF row < 10 THEN << DigitChars[row + 1] >> ELSE << "1", "0" >>

Distance(a, b) == IF a >= b THEN a - b ELSE b - a

Lesser(a, b) == IF a <= b THEN a ELSE b

\* the rectangle two corners name: rows in increasing row number, in each
\* row the columns in increasing index, each entry the stored value of the
\* cell's upper-case id
Rectangle(s, e) ==
    [ r \in 1 .. (Distance(s.row, e.row) + 1) |->
        [ c \in 1 .. (Distance(s.col, e.col) + 1) |->
            CellValueOf(ColumnLabel(Lesser(s.col, e.col) + c - 1)
                        \o RowLabel(Lesser(s.row, e.row) + r - 1)) ] ]

\* the corners of the other diagonal, written with the texts of s and e
OtherStart(s, e) == s.colText \o e.rowText

OtherEnd(s, e) == e.colText \o s.rowText

---------------------------------------------------------------------------
(* Cell ids in lower case *)

\* the upper-case spelling of a cell id
UpperId(id) == CHOOSE u \in UpperCellIds : SameLetters(id, u)

\* the node with its cell ids in upper case
UpperNode(node) ==
    IF node.type = "cell_ref" THEN CellRefNode(UpperId(node.cellId))
    ELSE FunctionCallNode(node.name,
            << RangeRefNode(UpperId(node.arguments[1].startCell),
                            UpperId(node.arguments[1].endCell)) >>)

\* C15: a formula that refers to a cell in lower case gives the value the
\* formula referring to it in upper case gives, for a single cell reference
\* ("=a1" as "=A1") and for the endpoints of a range ("=SUM(a1:b2)" as
\* "=SUM(A1:B2)").
C15_CellCase ==
    pc = "done" =>
        ret.value = evaluate(NewParser, Provider, FormulaOf(UpperNode(ast), FALSE)).value

---------------------------------------------------------------------------
(* Range endpoints that are not cell ids *)

\* the whole string is one or more letters followed by one or more digits
IsWholeCellId(id) ==
    \E k \in 1 .. (Len(id) - 1) :
        /\ \A i \in 1 .. k : id[i] \in UpperSet \cup LowerSet
        /\ \A i \in (k + 1) .. Len(id) : id[i] \in DigitSet

\* C16: getCellRange(s, e) fails with the "invalid cell range" condition,
\* and returns no structure, whenever s or e is not in its entirety of the
\* shape <letters><digits>; it returns a structure only when both are.
C16_InvalidEndpoint ==
    pc = "range" =>
        IF IsWholeCellId(ast.startCell) /\ IsWholeCellId(ast.endCell)
        THEN ~ret.exc.threw /\ ret.value.t = "array"
        ELSE ret.exc = ThrowError(MSG_INVALID_RANGE) /\ ret.value.t # "array"

---------------------------------------------------------------------------
(* The token list *)

\* tokenize, on the text of the call just made
TokenizeOfInput == tokenize(Prepared(NewParser, input))

\* the positions of the EOF tokens in the token list
EofPositions == { i \in DOMAIN tokens : tokens[i].type = "EOF" }

\* C17: when tokenize completes, the token list holds exactly one EOF
\* token, the last one; every token but EOF consumed at least one
\* character, so the list is no longer than the text plus one; when
\* tokenize fails, the parser is not run: the call returns the lexer's
\* message, the list holds no EOF token and the cursor is not moved.
C17_TokensEndInEof ==
    (pc = "done" /\ StartsWithEq(input))
    => IF ~TokenizeOfInput.exc.threw
       THEN /\ EofPositions = { Len(tokens) }
            /\ Len(tokens) <= Len(formula) + 1
       ELSE /\ EofPositions = { }
            /\ current = 0
            /\ ret.calls = 0
            /\ ret.value = Str(ERR_PREFIX \o TokenizeOfInput.exc.message)

\* "=SUM(1,2" has been tokenized into five tokens and EOF
C17_Witness ==
    /\ pc = "done"
    /\ input = F_SUM_UNCLOSED
    /\ ~TokenizeOfInput.exc.threw
    /\ Len(tokens) = 6
    /\ EofPositions = { 6 }

=============================================================================
